---- MODULE Spec2Model ----
(***************************************************************************)
(* A model of google_maps_scraper.py: GoogleMapsScraper.search_places (the *)
(* search orchestrator), make_request_with_retry / apply_rate_limiting     *)
(* (the request executor) and the tile geometry helpers they call.         *)
(*                                                                         *)
(* Time is counted in ticks of half a second, so that the 1.5 multiplier   *)
(* of apply_rate_limiting stays integral on the even delays drawn here.    *)
(* A geographic point is held in world units: the Web-Mercator plane cut   *)
(* into 2^WorldBits columns and rows, lng = u / 2^WorldBits * 360 - 180    *)
(* and lat the latitude of row v; lat_lng_to_tile and tile_to_lat_lng are  *)
(* exact on these units up to floating point rounding.                     *)
(* A string is a sequence of character codes.  A request is answered at    *)
(* once and a sleep lasts exactly as long as it was asked to.              *)
(***************************************************************************)
EXTENDS Integers, Sequences, FiniteSets, TLC

\* ------------------------------------------------------------------ bounds
\* how many upstream failures (429, transport failure, undecodable or
\* poisonous payload) one run of Spec may see
MaxFaults == 1
\* how many search_places invocations one scraper instance serves in SessionSpec
MaxSearches == 3
\* how many failures one run of SessionSpec may see
SessionFaults == 3
\* the wall clock when the scraper is constructed, in ticks
StartClock == 200
\* the upstream service answers at most this many requests: above what a
\* search of the configurations below can make
MaxAttempts == 38

\* --------------------------------------------------------- program constants
TicksPerSecond == 2
\* search_places: "if max_results > 20"
SmallLimit == 20
\* get_zoom_levels: max(10, min_zoom) and range(start_zoom, 22)
MinZoomFloor == 10
ZoomStop == 22
\* resolution of the world units: one more bit than the deepest zoom level, 21
WorldBits == ZoomStop
\* the cap of the adaptive skip: min(5, remaining_zooms)
SkipCap == 5
\* calculate_tile_radius: earth_circumference_meters
EarthCircumferenceMeters == 40075017
\* make_request_with_retry: headers.get('Retry-After', 60), in seconds
DefaultRetryAfter == 60
\* apply_rate_limiting: thresholds of the progressive delay
CountThreshold1 == 10
CountThreshold2 == 20
\* the character "_" of the dedupe key f"{name}_{address}"
Underscore == 95
\* parse_place_from_structure: the validity ranges 0 <= rating <= 5,
\* -90 <= lat <= 90 and -180 <= lng <= 180
RatingMax == 5
MaxLatitude == 90
MaxLongitude == 180

\* ------------------------------------------------------------------ helpers
Min(a, b) == IF a < b THEN a ELSE b
Max(a, b) == IF a > b THEN a ELSE b
Abs(a) == IF a < 0 THEN -a ELSE a
\* math.ceil(a / b) for b > 0
Ceil(a, b) == -((-a) \div b)
\* int(a / b) for b > 0: truncation toward zero
Trunc(a, b) == IF a >= 0 THEN a \div b ELSE -((-a) \div b)
\* list(range(a, b))
Range(a, b) == [k \in 1..Max(0, b - a) |-> a + k - 1]
\* seq[:n] for an int n (a negative n counts from the end)
Prefix(seq, n) ==
    IF n >= 0 THEN SubSeq(seq, 1, Min(n, Len(seq)))
    ELSE SubSeq(seq, 1, Max(0, Len(seq) + n))
\* str(None)
NoneStr == <<78, 111, 110, 101>>
\* None, where a string is expected, and where a place record is expected
None == <<-1>>
\* None, where a number is expected; a number v is <<v>>
NoValue == <<>>
NonePlace ==
    [name |-> None, address |-> None, rating |-> NoValue, lat |-> NoValue,
     lng |-> NoValue]

\* ---------------------------------------------------------------- geometry
\* lat_lng_to_tile: x = int((lng + 180) / 360 * 2^zoom), y likewise from lat
lat_lng_to_tile(lat, lng, zoom) ==
    [x |-> Trunc(lng, 2 ^ (WorldBits - zoom)), y |-> Trunc(lat, 2 ^ (WorldBits - zoom))]

\* tile_to_lat_lng: lng = x / 2^zoom * 360 - 180, lat from 1 - 2 * y / 2^zoom
tile_to_lat_lng(x, y, zoom) ==
    [lat |-> y * 2 ^ (WorldBits - zoom), lng |-> x * 2 ^ (WorldBits - zoom)]

\* mutant of calculate_tile_radius: the floor of one tile is missing
calculate_tile_radiusNoFloor(zoom, radius_meters) ==
    Ceil(radius_meters * 2 ^ zoom, EarthCircumferenceMeters)

\* calculate_tile_radius: max(1, ceil(radius_meters / (40075017 / 2^zoom)))
calculate_tile_radius(zoom, radius_meters) ==
    Max(1, Ceil(radius_meters * 2 ^ zoom, EarthCircumferenceMeters))

\* mutant of get_zoom_levels: the floor of 10 is missing
get_zoom_levelsNoFloor(min_zoom) == Range(min_zoom, ZoomStop)

\* get_zoom_levels: list(range(max(10, min_zoom), 22))
get_zoom_levels(min_zoom) == Range(Max(MinZoomFloor, min_zoom), ZoomStop)

\* generate_tile_coordinates: dx outer, dy inner, each tile with the point
\* tile_to_lat_lng gives for it
generate_tile_coordinates(center_lat, center_lng, zoom, radius_meters) ==
    LET c == lat_lng_to_tile(center_lat, center_lng, zoom)
        r == calculate_tile_radius(zoom, radius_meters)
        side == 2 * r + 1
    IN  [k \in 1..(side * side) |->
            LET dx == ((k - 1) \div side) - r
                dy == ((k - 1) % side) - r
                p  == tile_to_lat_lng(c.x + dx, c.y + dy, zoom)
            IN  [x |-> c.x + dx, y |-> c.y + dy, lat |-> p.lat, lng |-> p.lng]]

\* the sort key of search_places: abs(t[0] - center_x) + abs(t[1] - center_y)
TileKey(t, c) == Abs(t.x - c.x) + Abs(t.y - c.y)

\* list.sort(key=...): a stable sort, here by insertion
RECURSIVE InsertByKey(_, _, _)
InsertByKey(sorted, t, c) ==
    IF sorted = <<>> THEN <<t>>
    ELSE IF TileKey(Head(sorted), c) <= TileKey(t, c)
         THEN <<Head(sorted)>> \o InsertByKey(Tail(sorted), t, c)
         ELSE <<t>> \o sorted

\* mutant of SortTiles: the tiles are left in the order of the grid
SortTilesUnsorted(ts, n, c) == SubSeq(ts, 1, n)

RECURSIVE SortTiles(_, _, _)
SortTiles(ts, n, c) ==
    IF n = 0 THEN <<>> ELSE InsertByKey(SortTiles(ts, n - 1, c), ts[n], c)

\* build_search_url: the three computed values of the pb parameter
build_search_url(lat, lng, zoom) == [lat |-> lat, lng |-> lng, zoom |-> zoom]

\* ---------------------------------------------------------------- payloads
\* a candidate subtree, reduced to what parse_place_from_structure resolves:
\* rating is what stands at [14][4][7]; lats and lngs are what stands at the
\* three paths of each axis: [14][9][i], [14][1][i] and [14][0][i]
CandWith(name, address, rating, lats, lngs) ==
    [name |-> name, address |-> address, rating |-> rating, lats |-> lats,
     lngs |-> lngs]
Cand(name, address) ==
    CandWith(name, address, NoValue, <<NoValue, NoValue, NoValue>>,
             <<NoValue, NoValue, NoValue>>)

\* mutant of Truthy: the test of the name always passes
TruthyAlways(s) == TRUE

\* the truth value of a string or None: "if place_info.get('name')"
Truthy(s) == s # None /\ s # <<>>

\* "isinstance(v, (int, float)) and lo <= v <= hi"
Valid(raw, lo, hi) == raw # NoValue /\ lo <= raw[1] /\ raw[1] <= hi

\* mutant of rating_of: a rating out of range is taken to the nearest bound
rating_ofClamped(raw) ==
    IF raw = NoValue THEN NoValue ELSE <<Max(0, Min(RatingMax, raw[1]))>>

\* lines 392-395: place_info['rating']
rating_of(raw) == IF Valid(raw, 0, RatingMax) THEN raw ELSE NoValue

\* lines 630-654: one axis of place_info['coordinates']: the primary path,
\* then the two alternative paths, the first valid value taken
coordinate_of(raws, bound) ==
    IF Valid(raws[1], -bound, bound) THEN raws[1]
    ELSE IF Valid(raws[2], -bound, bound) THEN raws[2]
    ELSE IF Valid(raws[3], -bound, bound) THEN raws[3]
    ELSE NoValue

\* parse_place_from_structure: "return place_info if place_info.get('name') else None"
parse_place_from_structure(place_data) ==
    IF Truthy(place_data.name)
    THEN [name |-> place_data.name, address |-> place_data.address,
          rating |-> rating_of(place_data.rating),
          lat |-> coordinate_of(place_data.lats, MaxLatitude),
          lng |-> coordinate_of(place_data.lngs, MaxLongitude)]
    ELSE NonePlace

\* extract_places_from_response: the parsed candidates that have a name
RECURSIVE ExtractFrom(_)
ExtractFrom(cands) ==
    IF cands = <<>> THEN <<>>
    ELSE LET place_info == parse_place_from_structure(Head(cands))
         IN  IF place_info # NonePlace /\ Truthy(place_info.name)
             THEN <<place_info>> \o ExtractFrom(Tail(cands))
             ELSE ExtractFrom(Tail(cands))

\* clean_and_parse_json returns None on text it cannot decode, and then
\* extract_places_from_response returns no place
extract_places_from_response(payload) ==
    IF payload.kind = "undecodable" THEN <<>> ELSE ExtractFrom(payload.cands)

\* a payload on which extraction raises an exception that
\* parse_place_from_structure does not catch (int() of a NaN reviews count)
ExtractionRaises(payload) == payload.kind = "poison"

\* the dedupe key: f"{place['name']}_{place.get('address', '')}"
place_id(place) ==
    place.name \o <<Underscore>> \o (IF place.address = None THEN NoneStr ELSE place.address)

\* the loop "for place in places" of the tiled path
RECURSIVE MergePlaces(_, _, _, _)
MergePlaces(places, all, uniq, max_results) ==
    IF places = <<>> THEN [all |-> all, uniq |-> uniq]
    ELSE LET place == Head(places) IN
         IF place # NonePlace /\ Truthy(place.name)
         THEN IF place_id(place) \notin uniq
              THEN LET all2 == Append(all, place)
                       uniq2 == uniq \cup {place_id(place)}
                   IN  IF Len(all2) >= max_results
                       THEN [all |-> all2, uniq |-> uniq2]
                       ELSE MergePlaces(Tail(places), all2, uniq2, max_results)
              ELSE MergePlaces(Tail(places), all, uniq, max_results)
         ELSE MergePlaces(Tail(places), all, uniq, max_results)

\* the pages the upstream service answers with: places 1..20, an overlapping
\* page, and a page that lists one place twice (rating 4, at 30 N 31 E), a
\* candidate without a name, a place without an address whose rating is 7,
\* whose latitudes are 95, -91 and 45 and whose longitudes are 181 and -200,
\* and the places ("a_b", "c") and ("a", "b_c")
Block(a, b) == [k \in 1..(b - a + 1) |-> Cand(<<a + k - 1>>, <<>>)]
Page(cands) == [kind |-> "page", cands |-> cands]
Payloads ==
    { Page(<<>>),
      Page(Block(1, 20)),
      Page(Block(19, 23)),
      Page(<<CandWith(<<1>>, <<>>, <<4>>, <<<<30>>, NoValue, NoValue>>,
                      <<<<31>>, NoValue, NoValue>>),
             CandWith(<<1>>, <<>>, <<4>>, <<<<30>>, NoValue, NoValue>>,
                      <<<<31>>, NoValue, NoValue>>),
             Cand(None, <<7>>),
             CandWith(<<30>>, None, <<7>>, <<<<95>>, <<-91>>, <<45>>>>,
                      <<<<181>>, NoValue, <<-200>>>>),
             Cand(<<97, Underscore, 98>>, <<99>>),
             Cand(<<97>>, <<98, Underscore, 99>>)>>),
      [kind |-> "undecodable", cands |-> <<>>],
      [kind |-> "poison", cands |-> <<>>] }

\* the Retry-After headers a 429 answer carries: none, "2", "1.5"
NoHeader == <<>>
RetryAfterHeaders == {NoHeader, <<50>>, <<49, 46, 53>>}

IsDigit(ch) == ch >= 48 /\ ch <= 57
\* int(text) succeeds on a non-empty string of decimal digits
IntParses(text) == text # <<>> /\ \A k \in 1..Len(text) : IsDigit(text[k])
RECURSIVE IntOf(_)
IntOf(text) ==
    IF text = <<>> THEN 0
    ELSE 10 * IntOf(SubSeq(text, 1, Len(text) - 1)) + (text[Len(text)] - 48)

\* int(response.headers.get('Retry-After', 60)) raises ValueError
RetryAfterRaises(header) == header # NoHeader /\ ~IntParses(header)
\* its value, in seconds
retry_after(header) == IF header = NoHeader THEN DefaultRetryAfter ELSE IntOf(header)

\* random.uniform(min_delay, max_delay), sampled on the even ticks
DelayDraws(min_delay, max_delay) == {d \in min_delay..max_delay : d % 2 = 0}
\* random.uniform(1, 3) of the retry backoff, sampled at its two ends
BackoffDraws == {1 * TicksPerSecond, 3 * TicksPerSecond}

\* apply_rate_limiting: "if request_count > 10: base_delay *= 1.5
\* elif request_count > 20: base_delay *= 2.0", as a number of halves
DelayHalves(count) ==
    IF count > CountThreshold1 THEN 3
    ELSE IF count > CountThreshold2 THEN 4
    ELSE 2

\* apply_rate_limiting: base_delay after the progressive multiplication
ScaledDelay(count, draw) == (draw * DelayHalves(count)) \div 2

\* mutant of RateLimitedUntil: the remaining time is not slept
RateLimitedUntilNoSleep(t, last, base_delay) == t

\* apply_rate_limiting: the time at which it returns, when called at `t`
\* and the scaled delay is base_delay
RateLimitedUntil(t, last, base_delay) ==
    LET time_since_last_request == t - last
    IN  IF time_since_last_request < base_delay
        THEN t + (base_delay - time_since_last_request)
        ELSE t

\* main(): the text of --zoom-levels, split at its commas; "" when not given
NoZoomLevels == <<>>
\* not given, "12,14" and "12,x"
ZoomLevelTexts == {NoZoomLevels, <<<<49, 50>>, <<49, 52>>>>, <<<<49, 50>>, <<120>>>>}
\* main(), line 983: [int(z.strip()) for z in args.zoom_levels.split(',')]
custom_zooms(text) == [k \in 1..Len(text) |-> IntOf(text[k])]
\* the int() of line 983 raises ValueError on one of the parts
CustomZoomsRaise(text) == \E k \in 1..Len(text) : ~IntParses(text[k])

\* ------------------------------------------------------------------- state
VARIABLES
    scraper,            \* GoogleMapsScraper: min_delay, max_delay, max_retries
    last_request_time,  \* self.last_request_time
    request_count,      \* self.request_count
    args,               \* main's args: lat, lng, zoom, max_results, radius_meters,
                        \* zoom_levels
    pc,                 \* where search_places stands
    path,               \* "none", "single" or "tiled"
    all_places,
    unique_places,
    optimal_zooms,
    zoom_idx,
    places_before_zoom,
    tiles,
    tile_i,             \* the i of "for i, (...) in enumerate(tiles)"
    url,                \* the point and zoom the request is built for
    attempt,            \* make_request_with_retry: attempt
    response,           \* the payload of the response it returned
    result,             \* what search_places returned
    now,                \* time.time()
    fault_budget,       \* upstream failures still to come
    searches_left,      \* search_places invocations still to come
    attempts_made,      \* session.get calls made by this scraper
    exec_calls,         \* make_request_with_retry calls of this search
    grids_generated,    \* generate_tile_coordinates calls of this search
    call_log,           \* the attempts of the current make_request_with_retry call
    call_status,        \* "idle", "running", "returned" or "raised"
    rl,                 \* the last apply_rate_limiting call
    tile_failures,      \* tiles of this search that ended in a failure
    last_level          \* the zoom level processed before the current one

instVars == <<scraper, last_request_time, request_count>>
sweepVars == <<optimal_zooms, zoom_idx, places_before_zoom, tiles, last_level>>
accVars == <<all_places, unique_places>>
envVars == <<fault_budget, searches_left>>
vars == <<scraper, last_request_time, request_count, args, pc, path, all_places,
          unique_places, optimal_zooms, zoom_idx, places_before_zoom, tiles, tile_i,
          url, attempt, response, result, now, fault_budget, searches_left,
          attempts_made, exec_calls, grids_generated, call_log, call_status, rl,
          tile_failures, last_level>>

NoResult == <<NonePlace>>
NoPayload == [kind |-> "none", cands |-> <<>>]
NoUrl == [lat |-> 0, lng |-> 0, zoom |-> -1]
NoLevel == [idx |-> -1, new |-> 0]
NoRl == [count |-> -1, draw |-> 0, base_delay |-> 0, last |-> 0, called_at |-> 0,
         returned_at |-> 0]

\* the test of test_rate_limiting.py searches around Cairo (30.0444, 31.2357)
Cairo == [lat |-> 1729647, lng |-> 2461074]

\* a center on the antimeridian: longitude -180, the first column of the world
Antimeridian == [lat |-> Cairo.lat, lng |-> 0]

\* GoogleMapsScraper(min_delay, max_delay, max_retries), delays in ticks
Scrapers == [min_delay : {2}, max_delay : {2}, max_retries : {0, 1}]
SessionScrapers == [min_delay : {2}, max_delay : {4}, max_retries : {2, 3}]

SearchArgs ==
    [lat : {Cairo.lat}, lng : {Cairo.lng}, zoom : {9, 20, 22},
     max_results : {-1, 0, 2, SmallLimit, SmallLimit + 1},
     radius_meters : {0, 30}, zoom_levels : {NoZoomLevels}]
    \cup
    [lat : {Cairo.lat}, lng : {Cairo.lng}, zoom : {20},
     max_results : {SmallLimit + 1}, radius_meters : {30},
     zoom_levels : ZoomLevelTexts \ {NoZoomLevels}]
    \cup
    [lat : {Antimeridian.lat}, lng : {Antimeridian.lng}, zoom : {ZoomStop - 1},
     max_results : {SmallLimit + 1}, radius_meters : {10},
     zoom_levels : {NoZoomLevels}]
SessionArgs ==
    [lat : {Cairo.lat}, lng : {Cairo.lng}, zoom : {13},
     max_results : {1}, radius_meters : {10000}, zoom_levels : {NoZoomLevels}]

\* the state after GoogleMapsScraper.__init__, before search_places is called;
\* `entry` is "main" for a run of main() and "idle" for a direct caller
InitWith(entry, scrapers, argss, faults, searches) ==
    /\ scraper \in scrapers
    /\ last_request_time = 0
    /\ request_count = 0
    /\ args \in argss
    /\ pc = entry
    /\ path = "none"
    /\ all_places = <<>>
    /\ unique_places = {}
    /\ optimal_zooms = <<>>
    /\ zoom_idx = 0
    /\ places_before_zoom = 0
    /\ tiles = <<>>
    /\ tile_i = 0
    /\ url = NoUrl
    /\ attempt = 0
    /\ response = NoPayload
    /\ result = NoResult
    /\ now = StartClock
    /\ fault_budget = faults
    /\ searches_left = searches
    /\ attempts_made = 0
    /\ exec_calls = 0
    /\ grids_generated = 0
    /\ call_log = <<>>
    /\ call_status = "idle"
    /\ rl = NoRl
    /\ tile_failures = 0
    /\ last_level = NoLevel

Init == InitWith("main", Scrapers, SearchArgs, MaxFaults, 0)
SessionInit ==
    InitWith("idle", SessionScrapers, SessionArgs, SessionFaults, MaxSearches - 1)

\* ------------------------------------------------------------------- main
\* main(), lines 980-989: the handling of --zoom-levels. Line 986 reads the
\* attribute scraper.get_optimal_zoom_levels, which GoogleMapsScraper does not
\* have: the AttributeError is not a ValueError, so it ends the run.
Main ==
    /\ pc = "main"
    /\ IF args.zoom_levels # NoZoomLevels /\ ~CustomZoomsRaise(args.zoom_levels)
       THEN pc' = "crashed"
       ELSE pc' = "idle"
    /\ UNCHANGED <<instVars, args, path, accVars, sweepVars, tile_i, url, attempt,
                   response, result, now, envVars, attempts_made, exec_calls,
                   grids_generated, call_log, call_status, rl, tile_failures>>

\* ------------------------------------------------------------ search_places
\* mutant of UseTiles: the threshold taken one too low
UseTilesFrom20(max_results) == max_results >= SmallLimit

\* "if max_results > 20"
UseTiles(max_results) == max_results > SmallLimit

\* the call of make_request_with_retry(url)
CallExecutor(target) ==
    /\ url' = target
    /\ attempt' = 0
    /\ exec_calls' = exec_calls + 1
    /\ call_log' = <<>>
    /\ call_status' = "running"
    /\ response' = NoPayload
    /\ pc' = "attempt"

\* lines 811-820 and 909-913: the entry of search_places
SearchPlaces ==
    /\ pc = "idle"
    /\ all_places' = <<>>
    /\ unique_places' = {}
    /\ IF UseTiles(args.max_results)
       THEN /\ path' = "tiled"
            /\ optimal_zooms' = get_zoom_levels(args.zoom)
            /\ zoom_idx' = 0
            /\ pc' = "zoom_loop"
            /\ UNCHANGED <<url, attempt, exec_calls, call_log, call_status, response>>
       ELSE /\ path' = "single"
            /\ CallExecutor(build_search_url(args.lat, args.lng, args.zoom))
            /\ UNCHANGED <<optimal_zooms, zoom_idx>>
    /\ UNCHANGED <<instVars, args, places_before_zoom, tiles, tile_i, result, now,
                   envVars, attempts_made, grids_generated, rl, tile_failures,
                   last_level>>

\* "while zoom_idx < len(optimal_zooms)" and the break under it
ZoomLoopContinues ==
    zoom_idx < Len(optimal_zooms) /\ ~(Len(all_places) >= args.max_results)

current_zoom == optimal_zooms[zoom_idx + 1]

\* lines 824-847: one more zoom level: its grid, sorted nearest first
ZoomBegin ==
    /\ pc = "zoom_loop"
    /\ ZoomLoopContinues
    /\ places_before_zoom' = Len(all_places)
    /\ LET grid == generate_tile_coordinates(args.lat, args.lng, current_zoom,
                                             args.radius_meters)
           center == lat_lng_to_tile(args.lat, args.lng, current_zoom)
       IN  tiles' = SortTiles(grid, Len(grid), center)
    /\ grids_generated' = grids_generated + 1
    /\ tile_i' = 0
    /\ pc' = "tile_loop"
    /\ UNCHANGED <<instVars, args, path, accVars, optimal_zooms, zoom_idx, url,
                   attempt, response, result, now, envVars, attempts_made,
                   exec_calls, call_log, call_status, rl, tile_failures, last_level>>

\* lines 824-826 and 926: the sweep is over
ZoomLoopExit ==
    /\ pc = "zoom_loop"
    /\ ~ZoomLoopContinues
    /\ pc' = "limit"
    /\ UNCHANGED <<instVars, args, path, accVars, sweepVars, tile_i, url, attempt,
                   response, result, now, envVars, attempts_made, exec_calls,
                   grids_generated, call_log, call_status, rl, tile_failures>>

\* mutant of TileLoopContinues: the break on the cap is missing
TileLoopContinuesNoBreak == tile_i < Len(tiles)

\* "for i, (...) in enumerate(tiles)" and the break under it
TileLoopContinues ==
    tile_i < Len(tiles) /\ ~(Len(all_places) >= args.max_results)

\* lines 850-858: the next tile: its request is built and the executor called
TileBegin ==
    /\ pc = "tile_loop"
    /\ TileLoopContinues
    /\ LET t == tiles[tile_i + 1]
       IN  CallExecutor(build_search_url(t.lat, t.lng, current_zoom))
    /\ UNCHANGED <<instVars, args, path, accVars, sweepVars, tile_i, result, now,
                   envVars, attempts_made, grids_generated, rl, tile_failures>>

\* mutant of SkipCount: the cap of the skip taken one too high
SkipCountSix(remaining_zooms) == Min(SkipCap + 1, remaining_zooms)

\* min(5, remaining_zooms)
SkipCount(remaining_zooms) == Min(SkipCap, remaining_zooms)

\* mutant of NextZoomIdx: the skip lands on the last of the levels it passes
NextZoomIdxOffByOne(idx, new_unique_at_zoom, n_zooms) ==
    IF new_unique_at_zoom = 0
    THEN LET skip_count == SkipCount(n_zooms - idx - 1)
         IN  IF skip_count > 0 THEN idx + skip_count ELSE idx + 1
    ELSE idx + 1

\* mutant of NextZoomIdx: the "else: zoom_idx += 1" of the skip is missing
NextZoomIdxStuck(idx, new_unique_at_zoom, n_zooms) ==
    IF new_unique_at_zoom = 0
    THEN LET skip_count == SkipCount(n_zooms - idx - 1)
         IN  IF skip_count > 0 THEN idx + skip_count + 1 ELSE idx
    ELSE idx + 1

\* lines 893-905: the index of the zoom level to process next
NextZoomIdx(idx, new_unique_at_zoom, n_zooms) ==
    IF new_unique_at_zoom = 0
    THEN LET skip_count == SkipCount(n_zooms - idx - 1)
         IN  IF skip_count > 0 THEN idx + skip_count + 1 ELSE idx + 1
    ELSE idx + 1

\* lines 888-905: the tiles of the zoom level are done
ZoomEnd ==
    /\ pc = "tile_loop"
    /\ ~TileLoopContinues
    /\ LET new_unique_at_zoom == Len(all_places) - places_before_zoom
       IN  /\ zoom_idx' = NextZoomIdx(zoom_idx, new_unique_at_zoom, Len(optimal_zooms))
           /\ last_level' = [idx |-> zoom_idx, new |-> new_unique_at_zoom]
    /\ pc' = "zoom_loop"
    /\ UNCHANGED <<instVars, args, path, accVars, optimal_zooms, places_before_zoom,
                   tiles, tile_i, url, attempt, response, result, now, envVars,
                   attempts_made, exec_calls, grids_generated, call_log,
                   call_status, rl, tile_failures>>

\* mutant of CatchInTile: the failure of a tile ends the search
CatchInTileAbort ==
    /\ tile_failures' = tile_failures + 1
    /\ result' = <<>>
    /\ pc' = "done"
    /\ UNCHANGED tile_i

\* lines 879-881: "except Exception" of the tile loop, then "continue"
CatchInTile ==
    /\ tile_failures' = tile_failures + 1
    /\ tile_i' = tile_i + 1
    /\ pc' = "tile_loop"
    /\ UNCHANGED result

\* lines 919-924: the handlers of the single-request path: "return []"
CatchInSingle ==
    /\ result' = <<>>
    /\ pc' = "done"
    /\ UNCHANGED <<tile_i, tile_failures>>

\* an exception leaves make_request_with_retry or the extraction
Raised == IF path = "tiled" THEN CatchInTile ELSE CatchInSingle

\* ------------------------------------------------- make_request_with_retry
\* mutant of InRange: one attempt too many
InRangeOffByOne(a, max_retries) == a <= max_retries

\* "for attempt in range(self.max_retries)": attempt is in the range
InRange(a, max_retries) == a < max_retries

\* mutant of ApplyRateLimiting: the request is not counted
ApplyRateLimitingNoCount(draw) ==
    LET base_delay == ScaledDelay(request_count, draw)
        until == RateLimitedUntil(now, last_request_time, base_delay)
    IN  /\ last_request_time' = until
        /\ request_count' = request_count
        /\ rl' = [count |-> request_count, draw |-> draw, base_delay |-> base_delay,
                  last |-> last_request_time, called_at |-> now,
                  returned_at |-> until]

\* lines 666-687: apply_rate_limiting, called at `now` with the delay `draw`
ApplyRateLimiting(draw) ==
    LET base_delay == ScaledDelay(request_count, draw)
        until == RateLimitedUntil(now, last_request_time, base_delay)
    IN  /\ last_request_time' = until
        /\ request_count' = request_count + 1
        /\ rl' = [count |-> request_count, draw |-> draw, base_delay |-> base_delay,
                  last |-> last_request_time, called_at |-> now,
                  returned_at |-> until]

\* line 697: session.get, answered with `outcome`
Get(outcome, header) ==
    /\ attempts_made < MaxAttempts
    /\ attempts_made' = attempts_made + 1
    /\ call_log' = Append(call_log, [outcome |-> outcome, at |-> last_request_time',
                                     header |-> header])

\* mutant of RetryAfterSleep: the declared interval is not slept
RetryAfterSleepNone(header) == 0

\* time.sleep(retry_after), in ticks
RetryAfterSleep(header) == retry_after(header) * TicksPerSecond

\* "wait_time = (2 ** attempt) * random.uniform(1, 3)", in ticks
BackoffSleep(a, draw) == (2 ^ a) * draw

\* lines 691-697, 706-707: an attempt answered 2xx: the response is returned
Attempt2xx ==
    /\ pc = "attempt"
    /\ InRange(attempt, scraper.max_retries)
    /\ \E draw \in DelayDraws(scraper.min_delay, scraper.max_delay), payload \in Payloads :
          /\ payload.kind \in {"undecodable", "poison"} => fault_budget > 0
          /\ fault_budget' = IF payload.kind \in {"undecodable", "poison"}
                             THEN fault_budget - 1 ELSE fault_budget
          /\ ApplyRateLimiting(draw)
          /\ Get("2xx", NoHeader)
          /\ now' = last_request_time'
          /\ response' = payload
    /\ call_status' = "returned"
    /\ pc' = "response"
    /\ UNCHANGED <<scraper, args, path, accVars, sweepVars, tile_i, url, attempt,
                   result, searches_left, exec_calls, grids_generated,
                   tile_failures>>

\* lines 691-704, 719: an attempt answered 429
Attempt429 ==
    /\ pc = "attempt"
    /\ InRange(attempt, scraper.max_retries)
    /\ fault_budget > 0
    /\ fault_budget' = fault_budget - 1
    /\ \E draw \in DelayDraws(scraper.min_delay, scraper.max_delay),
          header \in RetryAfterHeaders :
          /\ ApplyRateLimiting(draw)
          /\ Get("429", header)
          /\ IF RetryAfterRaises(header)
             THEN \* ValueError, which no handler of the executor catches
                  /\ now' = last_request_time'
                  /\ call_status' = "raised"
                  /\ Raised
                  /\ UNCHANGED attempt
             ELSE /\ now' = last_request_time' + RetryAfterSleep(header)
                  /\ IF InRange(attempt + 1, scraper.max_retries)
                     THEN \* "continue"
                          /\ attempt' = attempt + 1
                          /\ call_status' = "running"
                          /\ UNCHANGED <<pc, tile_i, result, tile_failures>>
                     ELSE \* the loop is over: line 719 raises
                          /\ call_status' = "raised"
                          /\ Raised
                          /\ UNCHANGED attempt
    /\ UNCHANGED <<scraper, args, path, accVars, sweepVars, url, response,
                   searches_left, exec_calls, grids_generated>>

\* lines 691-697, 706-717: an attempt that ends in a RequestException
\* (timeout, connection error, a status raise_for_status rejects)
AttemptFail ==
    /\ pc = "attempt"
    /\ InRange(attempt, scraper.max_retries)
    /\ fault_budget > 0
    /\ fault_budget' = fault_budget - 1
    /\ \E draw \in DelayDraws(scraper.min_delay, scraper.max_delay),
          backoff \in BackoffDraws :
          /\ ApplyRateLimiting(draw)
          /\ Get("fail", NoHeader)
          /\ IF attempt < scraper.max_retries - 1
             THEN /\ now' = last_request_time' + BackoffSleep(attempt, backoff)
                  /\ attempt' = attempt + 1
                  /\ call_status' = "running"
                  /\ UNCHANGED <<pc, tile_i, result, tile_failures>>
             ELSE \* "raise"
                  /\ now' = last_request_time'
                  /\ call_status' = "raised"
                  /\ Raised
                  /\ UNCHANGED attempt
    /\ UNCHANGED <<scraper, args, path, accVars, sweepVars, url, response,
                   searches_left, exec_calls, grids_generated>>

\* line 719 when the loop has no iteration at all (max_retries <= 0)
NoAttempt ==
    /\ pc = "attempt"
    /\ ~InRange(attempt, scraper.max_retries)
    /\ call_status' = "raised"
    /\ Raised
    /\ UNCHANGED <<instVars, args, path, accVars, sweepVars, url, attempt, response,
                   now, envVars, attempts_made, exec_calls, grids_generated,
                   call_log, rl>>

\* ------------------------------------------------- the response is processed
\* "if i < len(tiles) - 1 or zoom_idx < len(optimal_zooms) - 1"
PacingDue == tile_i < Len(tiles) - 1 \/ zoom_idx < Len(optimal_zooms) - 1

\* lines 860-886: the places of a tile's response are merged
TileMerge ==
    /\ pc = "response"
    /\ path = "tiled"
    /\ IF ExtractionRaises(response)
       THEN /\ CatchInTile
            /\ UNCHANGED <<accVars, now>>
       ELSE /\ LET places == extract_places_from_response(response)
                   merged == MergePlaces(places, all_places, unique_places,
                                         args.max_results)
               IN  /\ all_places' = merged.all
                   /\ unique_places' = merged.uniq
            /\ tile_failures' = IF response.kind = "undecodable"
                                THEN tile_failures + 1 ELSE tile_failures
            /\ IF PacingDue
               THEN \E delay \in DelayDraws(scraper.min_delay, scraper.max_delay) :
                        now' = now + delay
               ELSE UNCHANGED now
            /\ tile_i' = tile_i + 1
            /\ pc' = "tile_loop"
            /\ UNCHANGED result
    /\ response' = NoPayload
    /\ UNCHANGED <<instVars, args, path, sweepVars, url, attempt, envVars,
                   attempts_made, exec_calls, grids_generated, call_log,
                   call_status, rl>>

\* lines 915-924: the single-request path takes the places as they are
SingleTake ==
    /\ pc = "response"
    /\ path = "single"
    /\ IF ExtractionRaises(response)
       THEN /\ CatchInSingle
            /\ UNCHANGED accVars
       ELSE /\ all_places' = extract_places_from_response(response)
            /\ pc' = "limit"
            /\ UNCHANGED <<unique_places, result, tile_i, tile_failures>>
    /\ response' = NoPayload
    /\ UNCHANGED <<instVars, args, path, sweepVars, url, attempt, now, envVars,
                   attempts_made, exec_calls, grids_generated, call_log,
                   call_status, rl>>

\* lines 926-928: "if max_results and len(all_places) > max_results"
Limited(places, max_results) ==
    IF max_results # 0 /\ Len(places) > max_results
    THEN Prefix(places, max_results)
    ELSE places

\* lines 926-931: the result is cut and returned
Limit ==
    /\ pc = "limit"
    /\ all_places' = Limited(all_places, args.max_results)
    /\ result' = all_places'
    /\ pc' = "done"
    /\ UNCHANGED <<instVars, args, path, unique_places, sweepVars, tile_i, url,
                   attempt, response, now, envVars, attempts_made, exec_calls,
                   grids_generated, call_log, call_status, rl, tile_failures>>

\* test_rate_limiting.py, lines 22-29: the same scraper serves another search
NewSearch ==
    /\ pc = "done"
    /\ searches_left > 0
    /\ searches_left' = searches_left - 1
    /\ args' \in SessionArgs
    /\ pc' = "idle"
    /\ path' = "none"
    /\ result' = NoResult
    /\ exec_calls' = 0
    /\ grids_generated' = 0
    /\ tile_failures' = 0
    /\ last_level' = NoLevel
    /\ call_log' = <<>>
    /\ call_status' = "idle"
    /\ UNCHANGED <<instVars, accVars, optimal_zooms, zoom_idx, places_before_zoom,
                   tiles, tile_i, url, attempt, response, now, fault_budget,
                   attempts_made, rl>>

\* ------------------------------------------------------------ specifications
\* one search_places invocation, as main() makes it
Next ==
    \/ Main
    \/ SearchPlaces
    \/ ZoomBegin
    \/ ZoomLoopExit
    \/ TileBegin
    \/ ZoomEnd
    \/ Attempt2xx
    \/ Attempt429
    \/ AttemptFail
    \/ NoAttempt
    \/ TileMerge
    \/ SingleTake
    \/ Limit

Spec == Init /\ [][Next]_vars

\* the same run under the scheduling of a sequential program: a step that can
\* be taken is taken, and every sleep completes
Rest ==
    \/ Main
    \/ SearchPlaces
    \/ ZoomLoopExit
    \/ TileBegin
    \/ ZoomEnd
    \/ Attempt2xx
    \/ Attempt429
    \/ AttemptFail
    \/ NoAttempt
    \/ SingleTake
    \/ Limit
\* the steps of ZoomBegin and of TileMerge, told by where they lead
LevelEntered == pc = "zoom_loop" /\ ZoomLoopContinues /\ pc' = "tile_loop"
TileMerged == pc = "response" /\ path = "tiled" /\ pc' = "tile_loop"
FairSpec ==
    /\ Init /\ [][Next]_vars
    /\ WF_vars(Rest) /\ WF_pc(LevelEntered) /\ WF_pc(TileMerged)

\* one scraper serving several small searches, as test_rate_limiting.py does
SessionNext ==
    \/ SearchPlaces
    \/ Attempt2xx
    \/ Attempt429
    \/ AttemptFail
    \/ SingleTake
    \/ Limit
    \/ NewSearch

SessionSpec == SessionInit /\ [][SessionNext]_vars

\* ------------------------------------------------------------------ claims
InSearch == pc \notin {"main", "idle", "crashed"}
\* the configuration the data model allows: maxResults >= 0, searchRadiusKm > 0
ValidConfig == args.max_results >= 0 /\ args.radius_meters > 0
PairwiseDistinctKeys(places) ==
    \A i \in 1..Len(places) : \A j \in 1..Len(places) :
        i # j => place_id(places[i]) # place_id(places[j])

\* C1: for every max_results >= 0 the returned sequence holds at most
\* max_results records, on both paths, and the accumulated count of a tiled
\* sweep never exceeds max_results.
C1_ResultWithinMax ==
    ValidConfig =>
        /\ pc = "done" => Len(result) <= args.max_results
        /\ path = "tiled" => Len(all_places) <= args.max_results

\* C2: at every point of a search the accumulated records, and the returned
\* ones, have pairwise distinct dedupe keys, on both paths.
C2_KeysDistinct ==
    ValidConfig =>
        /\ InSearch => PairwiseDistinctKeys(all_places)
        /\ pc = "done" => PairwiseDistinctKeys(result)

\* C3: in a tiled sweep, once the accumulated count has reached max_results
\* no step issues a request attempt or calls the executor again.
C3_NoRequestAfterCap ==
    [][(path = "tiled" /\ Len(all_places) >= args.max_results)
          => (attempts_made' = attempts_made /\ exec_calls' = exec_calls)]_vars

\* a sweep that reached the cap while tiles of the level and further zoom
\* levels were still to come
C3_Witness ==
    /\ path = "tiled" /\ pc = "done"
    /\ Len(result) = args.max_results
    /\ tile_i < Len(tiles)
    /\ zoom_idx < Len(optimal_zooms)
    /\ attempts_made > 1

\* C4: a step in which a tile of the sweep ends in a failure leaves the
\* accumulated records as they were, stays in the sweep at the same zoom level
\* and moves to the next tile in order.
C4_TileFailureContained ==
    [][tile_failures' > tile_failures
          => /\ all_places' = all_places
             /\ unique_places' = unique_places
             /\ result' = NoResult
             /\ pc' = "tile_loop"
             /\ tile_i' = tile_i + 1
             /\ tiles' = tiles
             /\ zoom_idx' = zoom_idx]_vars

\* a sweep in which a tile failed after places had been accumulated, and which
\* went on to fetch a later tile
C4_Witness ==
    /\ path = "tiled" /\ tile_failures > 0
    /\ Len(all_places) > 0
    /\ pc = "response" /\ response.kind = "page"

\* C5: a search with a negative max_results or a radius <= 0 makes no request
\* attempt and returns no result sequence.
C5_InvalidConfigRejected ==
    (args.max_results < 0 \/ args.radius_meters <= 0)
        => (attempts_made = 0 /\ result = NoResult)

\* C6: one call of the executor with max_retries = N makes at most N attempts;
\* a 2xx attempt is its last one and returns the response; N attempts that all
\* end in a 429 or a transport failure end in a failure raised to the caller.
C6_AtMostMaxRetriesAttempts ==
    LET n == Len(call_log) IN
    /\ n <= Max(0, scraper.max_retries)
    /\ \A k \in 1..n : call_log[k].outcome = "2xx" => (k = n /\ call_status = "returned")
    /\ call_status = "returned" => (n >= 1 /\ call_log[n].outcome = "2xx")
    /\ (n >= 1 /\ n = scraper.max_retries
           /\ \A k \in 1..n : call_log[k].outcome \in {"429", "fail"})
          => call_status = "raised"

\* an executor call that used up its attempts on a 429 and transport failures
C6_Witness ==
    /\ call_status = "raised"
    /\ Len(call_log) = scraper.max_retries
    /\ \E k \in 1..Len(call_log) : call_log[k].outcome = "429"
    /\ \E k \in 1..Len(call_log) : call_log[k].outcome = "fail"

\* C7: the attempt that follows an attempt answered 429 with a declared
\* interval of n seconds (60 when none is declared) starts at least n seconds
\* after it, and the 429 attempts count among the max_retries attempts.
C7_RetryAfterHonoured ==
    /\ \A k \in 2..Len(call_log) :
          call_log[k - 1].outcome = "429" =>
              LET h == call_log[k - 1].header
                  seconds == IF h = NoHeader THEN 60 ELSE IntOf(h)
              IN  call_log[k].at >= call_log[k - 1].at + seconds * TicksPerSecond
    /\ Len(call_log) <= Max(0, scraper.max_retries)

\* an attempt made after a 429 that declared 2 seconds, and one made after a
\* 429 that declared nothing
C7_Witness ==
    /\ Len(call_log) = 3
    /\ call_log[1].outcome = "429" /\ call_log[1].header = <<50>>
    /\ call_log[2].outcome = "429" /\ call_log[2].header = NoHeader

\* C8: the drawn delay is multiplied by 1.0 while request_count <= 10, by 1.5
\* while 10 < request_count <= 20 and by 2.0 once request_count > 20.
C8_DelayMultiplier ==
    rl.count >= 0 =>
        2 * rl.base_delay =
            rl.draw * (IF rl.count <= 10 THEN 2 ELSE IF rl.count <= 20 THEN 3 ELSE 4)

\* C9: the zoom level processed after a level that ended with no new unique
\* record lies 2 to 6 list positions (and zoom levels) after it; after a level
\* that ended with a new unique record it is the following entry of the list.
C9_ZoomAdvance ==
    (path = "tiled" /\ pc \in {"tile_loop", "attempt", "response"} /\ last_level.idx >= 0)
        => IF last_level.new = 0
           THEN /\ zoom_idx - last_level.idx \in 2..6
                /\ current_zoom - optimal_zooms[last_level.idx + 1] \in 2..6
           ELSE zoom_idx = last_level.idx + 1

\* a zoom level being fetched after a level that ended with no new record
C9_Witness ==
    /\ path = "tiled" /\ pc = "attempt"
    /\ last_level.idx >= 0 /\ last_level.new = 0

\* C10: the single-request path is taken exactly when max_results <= 20; on
\* it the executor is called exactly once, for the caller's center and zoom,
\* and no tile grid is generated.
C10_SinglePath ==
    InSearch =>
        /\ path = "single" <=> args.max_results <= 20
        /\ path = "tiled" <=> args.max_results > 20
        /\ path = "single" =>
              /\ exec_calls = 1
              /\ url = [lat |-> args.lat, lng |-> args.lng, zoom |-> args.zoom]
              /\ grids_generated = 0
              /\ tiles = <<>>

\* a single-request search with max_results = 20 that returned places
C10_Witness ==
    /\ path = "single" /\ pc = "done"
    /\ args.max_results = 20
    /\ Len(result) > 0
    /\ attempts_made >= 1


\* the zoom-level list the caller supplied parses to a non-empty list
OverrideGiven ==
    args.zoom_levels # NoZoomLevels /\ ~CustomZoomsRaise(args.zoom_levels)

\* C11: when the caller supplies an explicit zoom-level list, the run gets to
\* its tiled sweep, and the sweep takes its zoom levels from that list: every
\* request is made at a zoom level of the list.
C11_OverrideUsed ==
    (OverrideGiven /\ UseTiles(args.max_results)) =>
        /\ pc # "crashed"
        /\ path = "tiled" => optimal_zooms = custom_zooms(args.zoom_levels)

\* C12: without an override the zoom list of a sweep is exactly the ascending
\* integers from max(10, requested zoom) to 21, every request of the sweep is
\* made at a zoom level of that range, and when the requested zoom is above 21
\* the list is empty and the sweep makes no request.
C12_AutoZoomRange ==
    path = "tiled" =>
        LET lo == IF args.zoom > MinZoomFloor THEN args.zoom ELSE MinZoomFloor
            hi == ZoomStop - 1
        IN  /\ Len(optimal_zooms) = (IF lo > hi THEN 0 ELSE hi - lo + 1)
            /\ \A k \in 1..Len(optimal_zooms) : optimal_zooms[k] = lo + k - 1
            /\ pc \in {"attempt", "response"} => url.zoom \in lo..hi
            /\ args.zoom > hi => (optimal_zooms = <<>> /\ attempts_made = 0)

\* a request at zoom 17 of a sweep asked to start at zoom 9
C12_Witness ==
    /\ path = "tiled" /\ pc = "attempt"
    /\ args.zoom < MinZoomFloor /\ url.zoom = 17

\* a sweep asked to start above 21 that is over
C12_EmptyListDone == path = "tiled" /\ pc = "done" /\ args.zoom > ZoomStop - 1

\* the Manhattan distance, in tiles, between the tile a request is made for
\* and the tile of the search center at the request's zoom level
RequestDistance(u) ==
    LET t == lat_lng_to_tile(u.lat, u.lng, u.zoom)
        c == lat_lng_to_tile(args.lat, args.lng, u.zoom)
    IN  Abs(t.x - c.x) + Abs(t.y - c.y)

\* C13: the requests of a tiled sweep are issued with ascending zoom levels;
\* within one zoom level each request is for a tile at least as far (in
\* Manhattan distance) from the center tile as the one before it, and the
\* first request of a level is for the center tile.
C13_RequestOrder ==
    [][(path' = "tiled" /\ exec_calls' = exec_calls + 1) =>
          /\ url'.zoom >= url.zoom
          /\ url'.zoom = url.zoom => RequestDistance(url') >= RequestDistance(url)
          /\ url'.zoom > url.zoom => RequestDistance(url') = 0]_vars

\* the last request of a level of 25 tiles: the tile in a corner of the grid
C13_Witness ==
    /\ path = "tiled" /\ pc = "attempt"
    /\ Len(tiles) = 25 /\ tile_i = 24 /\ RequestDistance(url) = 4

\* C14: every record accumulated or returned has a non-empty name; a candidate
\* without a name is in neither, has no key in the dedupe set, and so does
\* not add to the count compared against max_results.
C14_NamedOnly ==
    InSearch =>
        /\ \A k \in 1..Len(all_places) :
               all_places[k].name # None /\ Len(all_places[k].name) > 0
        /\ path = "tiled" =>
               unique_places = {place_id(all_places[k]) : k \in 1..Len(all_places)}
        /\ pc = "done" =>
               \A k \in 1..Len(result) :
                   result[k].name # None /\ Len(result[k].name) > 0

\* a sweep is over that merged the page holding a candidate without a name:
\* only that page lists the place named <<30>>
C14_Witness ==
    /\ path = "tiled" /\ pc = "done"
    /\ \E k \in 1..Len(result) : result[k].name = <<30>>

\* a present number lies between lo and hi
WithinIfPresent(v, lo, hi) == v = NoValue \/ (lo <= v[1] /\ v[1] <= hi)
\* the number expected of a field when `raws` stand at its paths, in the order
\* of the paths: the first one inside lo..hi, none when there is no such value
ExpectedNumber(raws, lo, hi) ==
    LET ok == {i \in 1..Len(raws) :
                   raws[i] # NoValue /\ lo <= raws[i][1] /\ raws[i][1] <= hi}
    IN  IF ok = {} THEN NoValue
        ELSE raws[CHOOSE i \in ok : \A j \in ok : i <= j]

\* C15: in every record a present rating lies in [0, 5], a present latitude
\* in [-90, 90] and a present longitude in [-180, 180]; a record taken from a
\* page holds for each field the valid value found at the field's paths, and
\* no value at all (never the nearest bound) when what is found there is
\* outside the range.
C15_RangesKept ==
    [][\A k \in 1..Len(all_places') :
          LET p == all_places'[k] IN
          /\ WithinIfPresent(p.rating, 0, RatingMax)
          /\ WithinIfPresent(p.lat, -MaxLatitude, MaxLatitude)
          /\ WithinIfPresent(p.lng, -MaxLongitude, MaxLongitude)
          /\ \/ \E j \in 1..Len(all_places) : all_places[j] = p
             \/ \E i \in 1..Len(response.cands) :
                    LET c == response.cands[i] IN
                    /\ p.name = c.name /\ p.address = c.address
                    /\ p.rating = ExpectedNumber(<<c.rating>>, 0, RatingMax)
                    /\ p.lat = ExpectedNumber(c.lats, -MaxLatitude, MaxLatitude)
                    /\ p.lng = ExpectedNumber(c.lngs, -MaxLongitude, MaxLongitude)]_vars

\* a returned record whose candidate had rating 7, latitudes 95, -91 and 45
\* and longitudes 181 and -200: no rating, latitude 45, no longitude
C15_Witness ==
    /\ pc = "done"
    /\ \E k \in 1..Len(result) :
           /\ result[k].name = <<30>> /\ result[k].rating = NoValue
           /\ result[k].lat = <<45>> /\ result[k].lng = NoValue

\* C16: request_count is never reset or decreased, and after any sequence of
\* searches it equals the number of request attempts made since the scraper
\* was constructed: each attempt, whatever its answer, adds exactly one.
C16_CountsAttempts ==
    [][/\ request_count' >= request_count
       /\ request_count' = attempts_made'
       /\ request_count' - request_count \in {0, 1}]_vars

\* the last of several searches of one scraper is over, and attempts were
\* repeated on the way: more attempts than searches
C16_Witness ==
    /\ pc = "done" /\ searches_left = 0
    /\ request_count > MaxSearches /\ request_count = attempts_made

\* C17: every invocation of search_places terminates: whatever the upstream
\* service answers, the search that was entered reaches its return.
C17_Terminates == (pc = "idle") ~> (pc = "done")

\* a tiled sweep that returned after requests were answered 2xx, 429 and with
\* a failure of the transport
C17_Witness ==
    /\ path = "tiled" /\ pc = "done"
    /\ fault_budget = 0 /\ attempts_made > 9

\* the radius in tiles the grid of zoom level z is to have: the least r >= 1
\* with r tile sides (each 40075017 / 2^z meters) covering the search radius
GridRadius(z) ==
    CHOOSE r \in 1..64 :
        /\ r * EarthCircumferenceMeters >= args.radius_meters * 2 ^ z
        /\ \A q \in 1..(r - 1) :
               q * EarthCircumferenceMeters < args.radius_meters * 2 ^ z

\* C18: the grid of a zoom level holds exactly (2r+1)^2 pairwise distinct
\* tiles, those of the square of radius r around the center tile, where
\* r = max(1, ceil(radius * 2^zoom / 40075017)); so r >= 1 whatever the
\* radius, a radius of zero included.
C18_GridIsSquare ==
    (path = "tiled" /\ pc \in {"tile_loop", "attempt", "response"}) =>
        LET z == optimal_zooms[zoom_idx + 1]
            r == GridRadius(z)
            c == lat_lng_to_tile(args.lat, args.lng, z)
        IN  /\ Len(tiles) = (2 * r + 1) * (2 * r + 1)
            /\ {<<tiles[k].x, tiles[k].y>> : k \in 1..Len(tiles)}
                   = ((c.x - r)..(c.x + r)) \X ((c.y - r)..(c.y + r))

\* a level on which the radius of 30 m takes two tiles: a grid of 25
C18_Witness ==
    /\ path = "tiled" /\ pc = "tile_loop" /\ tile_i = 0
    /\ args.radius_meters > 0 /\ Len(tiles) = 25

\* a level of a search with radius zero: a grid of 9
C18_ZeroRadius ==
    /\ path = "tiled" /\ pc = "tile_loop" /\ tile_i = 0
    /\ args.radius_meters = 0 /\ Len(tiles) = 9

\* C19: the point attached to a tile is the center of the tile: its longitude
\* is that of column x + 1/2 of the 2^zoom columns, and its latitude lies
\* inside the tile, at its vertical midpoint, not on an edge or in a corner.
C19_TilePointIsCenter ==
    (ValidConfig /\ path = "tiled" /\ pc \in {"tile_loop", "attempt", "response"}) =>
        LET side == 2 ^ (WorldBits - optimal_zooms[zoom_idx + 1])
        IN  \A k \in 1..Len(tiles) :
                /\ 2 * tiles[k].lng = (2 * tiles[k].x + 1) * side
                /\ tiles[k].y * side < tiles[k].lat
                /\ tiles[k].lat < (tiles[k].y + 1) * side

\* C20: after a zoom level that brought no new record, when at most 5 levels
\* remain none of them is processed and the sweep ends without another
\* request; when more than 5 remain, the 5 following levels are passed over
\* and the sixth following one is the level processed next.
C20_SkipOrEnd ==
    (path = "tiled" /\ last_level.idx >= 0 /\ last_level.new = 0) =>
        IF Len(optimal_zooms) - last_level.idx - 1 <= SkipCap
        THEN /\ pc \in {"zoom_loop", "limit", "done"}
             /\ zoom_idx >= Len(optimal_zooms)
        ELSE /\ pc \in {"zoom_loop", "tile_loop", "attempt", "response"}
             /\ zoom_idx = last_level.idx + SkipCap + 1

\* a sweep over zoom levels 10..21 that is over after two levels: the first
\* (11 remaining) and the seventh (5 remaining), both without a new record
C20_Witness ==
    /\ path = "tiled" /\ pc = "done"
    /\ Len(optimal_zooms) = 12 /\ grids_generated = 2
    /\ last_level = [idx |-> SkipCap + 1, new |-> 0]

\* C21: a request whose attempt is answered 429 is not ended by that answer
\* while fewer than max_retries attempts have been made: whatever the form
\* of the declared retry interval (none, an integer, not an integer), the
\* executor raises on a 429 only at the attempt that uses up the budget.
C21_RetriedAfter429 ==
    (call_status = "raised" /\ Len(call_log) > 0
        /\ call_log[Len(call_log)].outcome = "429")
    => Len(call_log) >= scraper.max_retries

\* C22: in a tiled sweep, when the processing of a tile ends and another tile
\* is still to come (in this zoom level or a later one), a pacing sleep of
\* min_delay..max_delay is made, whatever the outcome of the tile: places,
\* no place, or a failure.
C22_PacingBetweenTiles ==
    [][(ValidConfig /\ path = "tiled" /\ pc = "response" /\ pc' = "tile_loop"
            /\ PacingDue)
          => (now' - now >= scraper.min_delay /\ now' - now <= scraper.max_delay)]_vars

\* C23: an attempt of the executor is made no earlier than last_request_time
\* of the attempt before it plus the delay computed for the new attempt, which
\* is at least min_delay; last_request_time is set to the time of every
\* attempt, retries included, and never decreases.
C23_SpacedAttempts ==
    [][/\ last_request_time' >= last_request_time
       /\ attempts_made' = attempts_made + 1 =>
             /\ rl'.last = last_request_time
             /\ rl'.base_delay >= scraper.min_delay
             /\ last_request_time' >= last_request_time + rl'.base_delay
             /\ last_request_time' >= now
             /\ call_log'[Len(call_log')].at = last_request_time']_vars

\* a retry for which apply_rate_limiting had to sleep: the backoff before it
\* was shorter than the delay computed for it
C23_Witness ==
    /\ pc = "attempt" /\ attempt >= 1 /\ Len(call_log) >= 2
    /\ rl.called_at > rl.last /\ rl.returned_at > rl.called_at
    /\ rl.returned_at = rl.last + rl.base_delay

\* C24: the merge of a tiled sweep drops no place whose (name, address) pair
\* differs from the pair of every accumulated record: while the cap is not
\* reached, every named candidate of a merged page has a record with its
\* pair among the accumulated ones, pairs with "_" in the name or the address
\* and pairs without an address included.
C24_DistinctPairsKept ==
    [][(ValidConfig /\ path = "tiled" /\ pc = "response" /\ response.kind = "page"
            /\ Len(all_places') < args.max_results)
          => \A i \in 1..Len(response.cands) :
                 LET c == response.cands[i] IN
                 (c.name # None /\ c.name # <<>>) =>
                     \E k \in 1..Len(all_places') :
                         /\ all_places'[k].name = c.name
                         /\ all_places'[k].address = c.address]_vars

\* C25: the executor sleeps (backoff or Retry-After) only when another attempt
\* of the request follows: at the attempt whose failure ends the request, with
\* a failure of the transport or with a 429, it raises with no sleep after
\* the answer.
C25_NoSleepBeforeRaise ==
    [][(attempts_made' = attempts_made + 1 /\ call_status' = "raised")
          => now' = last_request_time']_vars

\* C26: every tile of a generated grid is a tile of its zoom level,
\* 0 <= x < 2^zoom and 0 <= y < 2^zoom, and the point of every request lies
\* in the world (longitude in [-180, 180]), for centers next to the
\* antimeridian as for any other.
C26_TilesInWorld ==
    (ValidConfig /\ path = "tiled" /\ pc \in {"tile_loop", "attempt", "response"}) =>
        LET n == 2 ^ optimal_zooms[zoom_idx + 1]
        IN  /\ \A k \in 1..Len(tiles) :
                   /\ 0 <= tiles[k].x /\ tiles[k].x < n
                   /\ 0 <= tiles[k].y /\ tiles[k].y < n
            /\ pc = "attempt" => (0 <= url.lng /\ url.lng <= 2 ^ WorldBits)

====
